---- MODULE Spec2Model ----
(***************************************************************************)
(* A model of the snarkOS network crawler: the peer registry of the        *)
(* synthetic node (.synthetic_node/src/lib.rs: perform_handshake,          *)
(* handle_disconnect, the two lookups) with its two RwLocks, the crawler's *)
(* peer-update loop and message handlers (.crawler/src/crawler.rs) and its *)
(* frame codec (read_message / write_message).                             *)
(*                                                                         *)
(* The specifications of the module:                                       *)
(*   SpecRegistry  handshakes, disconnects and lookups racing on the locks *)
(*   SpecCrawler   the peer-update loop, the handlers and the dial tasks   *)
(*   SpecCodec     read_message applied to byte streams                    *)
(*   SpecHandshake the handshakes alone, peers announcing either version   *)
(*   SpecDispatch  process_message and the tasks it spawns, per connection *)
(*   SpecPipeline  two nodes in perform_handshake with each other          *)
(*   SpecStream    read_message on frames that arrive in two pieces          *)
(*   SpecDial      the dial tasks of update_peers and process_peer_response *)
(***************************************************************************)
EXTENDS Integers, Sequences, FiniteSets, TLC

VARIABLES
    address_map,      \* ClientState.address_map: connected addr -> listening addr
    peers,            \* ClientState.peers: listening addr -> ClientPeer
    address_map_lock, \* RwLock of address_map: [writer, readers]
    peers_lock,       \* RwLock of peers: [writer, readers]
    debug_assertions, \* whether the build has debug assertions enabled
    hs,               \* the perform_handshake calls in progress
    dc,               \* the handle_disconnect calls in progress
    connections,      \* pea2pea: the connected addresses of the transport
    lk,               \* the lookup in progress (get_peer_listening_addr reads twice)
    obs,              \* what the step into this state returned, if a call returned in it
    nodes,            \* KnownNetwork.nodes: listening addr -> state ("None" or "Some")
    edges,            \* KnownNetwork.connections: the set of <<source, target>>
    spawned,          \* per address, the dial tasks spawned and not yet polled
    connecting,       \* pea2pea: the addresses being connected to
    pending_dc,       \* the connected addresses with a disconnect task spawned
    loop,             \* the peer-update task: where it is and its addrs_to_disconnect
    round,            \* the dial tasks spawned since the last wake-up of the loop
    handled,          \* the Pings and PeerResponses handled so far
    stream,           \* the bytes a peer's connection has delivered to the crawler
    frames,           \* the frames written to stream: where each starts and what it holds
    pos,              \* the reader's position in stream
    reader,           \* "open", or "closed" once read_message failed
    undelivered,      \* the bytes a peer has written that have not reached the crawler yet
    response_tasks,   \* the tasks process_peer_response spawned that have not run yet
    handshaken,       \* the listening addresses a handshake has completed for
    dials,            \* the dial tasks: where each is, what connect returned, the calls it made
    ends,             \* two nodes in perform_handshake with each other: each end's step and result
    wire              \* per end, the handshake messages sent to it and not yet read

registry_vars == <<address_map, peers, address_map_lock, peers_lock, debug_assertions, hs, dc, connections, lk, obs>>

\* The registry variables the crawler's handlers leave alone.
sync_vars == <<address_map_lock, peers_lock, hs, dc, lk>>

crawler_vars == <<nodes, edges, spawned, connecting, pending_dc, loop, round, handled>>

codec_vars == <<stream, frames, pos, reader, undelivered>>

dispatch_vars == <<response_tasks, handshaken>>

pipeline_vars == <<ends, wire>>

dial_vars == <<dials>>

vars == <<registry_vars, crawler_vars, codec_vars, dispatch_vars, pipeline_vars, dial_vars>>

-----------------------------------------------------------------------------
(* Bounds of the model. *)

NumHandshakes == 2
NumDisconnects == 1

\* The longest peer list a PeerResponse carries here.
MaxPeerList == 2

\* The most dial tasks counted: spawned and not yet polled at one time, and
\* spawned between two wake-ups of the peer-update loop.
MaxDials == 2

\* The most Pings and PeerResponses the crawler handles.
MaxMessages == 1

-----------------------------------------------------------------------------
(* Addresses: SocketAddr is a pair <<ip, port>>. *)

\* The port the crawler listens on (Opts.addr default, crawler.rs:58).
CrawlerPort == 4132

\* The ports a peer may advertise in its challenge request: the crawler's own
\* and the one of the spec's test peer (both on the crawler's host, as in the
\* spec's scenarios).
ListeningPorts == {CrawlerPort, 4200}

\* The addresses connections come from (connection.addr): inbound
\* connections from two ephemeral ports, and an outbound connection to the test
\* peer, whose connected address is the peer's listening address.
ConnectedAddrs == {<<"ipA", 50001>>, <<"ipA", 50002>>, <<"ipA", 4200>>}

ListeningAddrs == {<<"ipA", port>> : port \in ListeningPorts}

Addr(ip, port) == <<ip, port>>

IpOf(addr) == addr[1]

\* MESSAGE_VERSION and the skewed version of the spec's scenario.
MESSAGE_VERSION == 12

Versions == {MESSAGE_VERSION, MESSAGE_VERSION - 1}

NoAddr == <<"none", 0>>

-----------------------------------------------------------------------------
(* Maps (HashMap) as functions with a finite domain. *)

EmptyMap == [k \in {} |-> k]

MapInsert(m, k, v) == [x \in (DOMAIN m) \cup {k} |-> IF x = k THEN v ELSE m[x]]

\* A removal that removes nothing.
MapRemoveNothing(m, k) == m

MapRemove(m, k) == [x \in (DOMAIN m) \ {k} |-> m[x]]

ContainsKey(m, k) == k \in DOMAIN m

-----------------------------------------------------------------------------
(* parking_lot::RwLock: one writer or any number of readers. *)

NoTask == <<"none", 0>>

HsTasks == {<<"hs", i>> : i \in 1..NumHandshakes}

DcTasks == {<<"dc", i>> : i \in 1..NumDisconnects}

LkTask == <<"lk", 1>>

FreeLock == [writer |-> NoTask, readers |-> {}]

CanRead(lock) == lock.writer = NoTask

CanWrite(lock) == lock.writer = NoTask /\ lock.readers = {}


-----------------------------------------------------------------------------
(* perform_handshake, lib.rs:121-244.  One action per suspension point or   *)
(* lock acquisition; the code run under the same set of locks is one step.  *)

\* The messages a peer may send first (read at lib.rs:154-157), its challenge
\* requests announcing a version of the set versions.
FirstMessages(versions) ==
    {[kind |-> "ChallengeRequest", version |-> v, port |-> p] : v \in versions, p \in ListeningPorts}
    \cup {[kind |-> k, version |-> 0, port |-> 0] : k \in {"Disconnect", "Other", "TooLong", "Eof"}}

\* The messages a peer may send second (read at lib.rs:199-202).  header is
\* "genesis", "other" (another block's header) or "garbage" (does not decode).
SecondMessages ==
    {[kind |-> "ChallengeResponse", header |-> h] : h \in {"genesis", "other", "garbage"}}
    \cup {[kind |-> k, header |-> "none"] : k \in {"Disconnect", "Other", "TooLong", "Eof"}}

\* No call returned in the step.
NoObs == [op |-> "none", ret |-> NoAddr, half |-> FALSE]

HsIdle == [pc |-> "idle", peer_addr |-> NoAddr, peer_listening_addr |-> NoAddr, peer_version |-> 0]

\* A call that has returned leaves its task idle, for the next connection.
HsDone == HsIdle

\* What obs records when perform_handshake returns for the connection from
\* peer_addr: the result and the line of the return.
HsReturn(peer_addr, result, line) ==
    [op |-> "perform_handshake", ret |-> <<result, line>>, half |-> FALSE]

\* lib.rs:172: the listening address is the peer's IP and its advertised port.
PeerListeningAddr(peer_addr, port) == Addr(IpOf(peer_addr), port)

\* lib.rs:219-225: the ClientPeer registered for a connection (nonce, node_type
\* and cumulative_weight are stored as received and read by nothing here).
NewClientPeer(peer_addr, version) == [connected_addr |-> peer_addr, peer_version |-> version]

\* The re-check with the test of peers left out.
RegisterRaceAddrOnly(am, prs, peer_addr, listening_addr) ==
    ContainsKey(am, peer_addr)

\* The re-check under the locks left out: only the early checks remain.
RegisterRaceNone(am, prs, peer_addr, listening_addr) == FALSE

\* lib.rs:212: the re-check of both maps under both write locks.
RegisterRace(am, prs, peer_addr, listening_addr) ==
    ContainsKey(am, peer_addr) \/ ContainsKey(prs, listening_addr)

\* A new call takes the lowest-numbered task that is idle.
LowestIdle(tasks, t) == \A u \in DOMAIN tasks : u[2] < t[2] => tasks[u].pc # "idle"

\* pea2pea: the addresses with a connection attempt or a handshake in progress.
Connecting == connecting \cup {hs[t].peer_addr : t \in {u \in HsTasks : hs[u].pc # "idle"}}

\* lib.rs:121-148: the immediate duplicate check, then the challenge request is
\* sent; the transport has one connection per address, so no two handshakes at
\* a time are for the same one.
HsBegin(t) ==
    /\ hs[t].pc = "idle"
    /\ LowestIdle(hs, t)
    /\ CanRead(address_map_lock)
    /\ \E c \in ConnectedAddrs \ Connecting :
        IF ContainsKey(address_map, c)
        THEN /\ hs' = [hs EXCEPT ![t] = HsDone]
             /\ obs' = HsReturn(c, "AlreadyExists", 127)
        ELSE /\ hs' = [hs EXCEPT ![t] = [HsIdle EXCEPT !.pc = "l154", !.peer_addr = c]]
             /\ obs' = NoObs
    /\ UNCHANGED <<dial_vars, pipeline_vars, dispatch_vars, crawler_vars, codec_vars, address_map, peers, address_map_lock, peers_lock, debug_assertions, dc, connections, lk>>

\* lib.rs:153-187: what the call returns on the peer's first message m, or
\* <<"go on", 189>> when m is a challenge request of a peer not yet registered.
\* The check of the first message with the Disconnect branch (lib.rs:181-183)
\* left out.
RequestOutcomeNoDisconnect(m, prs, l) ==
    CASE m.kind = "Eof" -> <<"UnexpectedEof", 156>>
      [] m.kind = "TooLong" -> <<"panic", 156>>
      [] m.kind \in {"Disconnect", "Other"} -> <<"InvalidData", 186>>
      [] m.kind = "ChallengeRequest" /\ ContainsKey(prs, l) -> <<"AlreadyExists", 175>>
      [] OTHER -> <<"go on", 189>>

\* The check of the first message with a test of the announced version added.
RequestOutcomeStrict(m, prs, l) ==
    CASE m.kind = "Eof" -> <<"UnexpectedEof", 156>>
      [] m.kind = "TooLong" -> <<"panic", 156>>
      [] m.kind = "Disconnect" -> <<"NotConnected", 183>>
      [] m.kind = "Other" -> <<"InvalidData", 186>>
      [] m.kind = "ChallengeRequest" /\ m.version # MESSAGE_VERSION -> <<"InvalidData", 186>>
      [] m.kind = "ChallengeRequest" /\ ContainsKey(prs, l) -> <<"AlreadyExists", 175>>
      [] OTHER -> <<"go on", 189>>

RequestOutcome(m, prs, l) ==
    CASE m.kind = "Eof" -> <<"UnexpectedEof", 156>>
      [] m.kind = "TooLong" -> <<"panic", 156>>
      [] m.kind = "Disconnect" -> <<"NotConnected", 183>>
      [] m.kind = "Other" -> <<"InvalidData", 186>>
      [] m.kind = "ChallengeRequest" /\ ContainsKey(prs, l) -> <<"AlreadyExists", 175>>
      [] OTHER -> <<"go on", 189>>

\* lib.rs:153-196: the peer's challenge request is read and checked, and the
\* challenge response is sent.
HsRecvRequest(t, versions) ==
    /\ hs[t].pc = "l154"
    /\ \E m \in FirstMessages(versions) :
        LET c == hs[t].peer_addr
            l == PeerListeningAddr(c, m.port)
            out == RequestOutcome(m, peers, l)
        IN  /\ m.kind = "ChallengeRequest" => CanRead(peers_lock)
            /\ IF out[1] = "go on"
               THEN /\ hs' = [hs EXCEPT ![t] = [@ EXCEPT !.pc = "l199", !.peer_listening_addr = l, !.peer_version = m.version]]
                    /\ obs' = NoObs
               ELSE /\ hs' = [hs EXCEPT ![t] = HsDone]
                    /\ obs' = HsReturn(c, out[1], out[2])
    /\ UNCHANGED <<dial_vars, pipeline_vars, dispatch_vars, crawler_vars, codec_vars, address_map, peers, address_map_lock, peers_lock, debug_assertions, dc, connections, lk>>

\* The check of the second message with the comparison of the header with the
\* genesis header (lib.rs:208) left out.
ResponseOutcomeAnyHeader(m) ==
    CASE m.kind = "Eof" -> <<"UnexpectedEof", 201>>
      [] m.kind = "TooLong" -> <<"panic", 201>>
      [] m.kind = "Disconnect" -> <<"NotConnected", 239>>
      [] m.kind = "Other" -> <<"InvalidData", 242>>
      [] m.kind = "ChallengeResponse" /\ m.header = "garbage" -> <<"panic", 205>>
      [] OTHER -> <<"go on", 209>>

\* lib.rs:198-208 and 233-243: what the call returns on the peer's second
\* message m, or <<"go on", 209>> when m carries the genesis header.
ResponseOutcome(m) ==
    CASE m.kind = "Eof" -> <<"UnexpectedEof", 201>>
      [] m.kind = "TooLong" -> <<"panic", 201>>
      [] m.kind = "Disconnect" -> <<"NotConnected", 239>>
      [] m.kind = "Other" -> <<"InvalidData", 242>>
      [] m.kind = "ChallengeResponse" /\ m.header = "garbage" -> <<"panic", 205>>
      [] m.kind = "ChallengeResponse" /\ m.header = "other" -> <<"InvalidData", 235>>
      [] OTHER -> <<"go on", 209>>

\* lib.rs:198-209 and 233-243: the peer's challenge response is read and
\* checked; when it carries the genesis header the call goes on to peers.write()
\* (line 209), which it gets once no other task holds the lock.
HsRecvResponse(t) ==
    /\ hs[t].pc = "l199"
    /\ \E m \in SecondMessages :
        LET out == ResponseOutcome(m) IN
        IF out[1] = "go on"
        THEN /\ CanWrite(peers_lock)
             /\ peers_lock' = [peers_lock EXCEPT !.writer = t]
             /\ hs' = [hs EXCEPT ![t].pc = "l210"]
             /\ obs' = NoObs
        ELSE /\ hs' = [hs EXCEPT ![t] = HsDone]
             /\ obs' = HsReturn(hs[t].peer_addr, out[1], out[2])
             /\ UNCHANGED peers_lock
    /\ UNCHANGED <<dial_vars, pipeline_vars, dispatch_vars, crawler_vars, codec_vars, address_map, peers, address_map_lock, debug_assertions, dc, connections, lk>>

\* lib.rs:210-232: address_map.write(), the re-check, the two inserts, and both
\* guards dropped (by drop() or by the early return).  pea2pea then adds the
\* connection to its connected set.
HsRegister(t) ==
    /\ hs[t].pc = "l210"
    /\ CanWrite(address_map_lock)
    /\ LET c == hs[t].peer_addr
           l == hs[t].peer_listening_addr
       IN  IF RegisterRace(address_map, peers, c, l)
           THEN /\ obs' = HsReturn(c, "AlreadyExists", 213)
                /\ UNCHANGED <<address_map, peers, connections>>
           ELSE /\ address_map' = MapInsert(address_map, c, l)
                /\ peers' = MapInsert(peers, l, NewClientPeer(c, hs[t].peer_version))
                /\ connections' = connections \cup {c}
                /\ obs' = HsReturn(c, "Ok", 232)
    /\ hs' = [hs EXCEPT ![t] = HsDone]
    /\ peers_lock' = [peers_lock EXCEPT !.writer = NoTask]
    /\ UNCHANGED <<dial_vars, pipeline_vars, dispatch_vars, crawler_vars, codec_vars, address_map_lock, debug_assertions, dc, lk>>

-----------------------------------------------------------------------------
(* handle_disconnect, lib.rs:264-270. *)

\* What obs records when handle_disconnect has returned: the address it was
\* called for and the listening address it removed (NoAddr when it found none).
DcReturn(disconnecting_addr, listening_addr) == [op |-> "handle_disconnect", ret |-> <<disconnecting_addr, listening_addr>>, half |-> FALSE]

DcIdle == [pc |-> "idle", disconnecting_addr |-> NoAddr, listening_addr |-> NoAddr]

\* A call that has returned leaves its task idle, for the next disconnect.
DcDone == DcIdle

\* lib.rs:265, left operand: address_map.read() is taken; the guard is a
\* temporary of the assertion and lives until the comparison is done.  A
\* release build goes straight to line 267.
DcBegin(t) ==
    /\ dc[t].pc = "idle"
    /\ LowestIdle(dc, t)
    /\ \E c \in ConnectedAddrs :
        IF debug_assertions
        THEN /\ CanRead(address_map_lock)
             /\ address_map_lock' = [address_map_lock EXCEPT !.readers = @ \cup {t}]
             /\ dc' = [dc EXCEPT ![t] = [DcIdle EXCEPT !.pc = "l265", !.disconnecting_addr = c]]
        ELSE /\ dc' = [dc EXCEPT ![t] = [DcIdle EXCEPT !.pc = "l267", !.disconnecting_addr = c]]
             /\ UNCHANGED address_map_lock
    /\ obs' = NoObs
    /\ UNCHANGED <<dial_vars, pipeline_vars, dispatch_vars, crawler_vars, codec_vars, address_map, peers, peers_lock, debug_assertions, hs, connections, lk>>

\* lib.rs:265, right operand and the comparison: peers.read() is taken while
\* the read guard of address_map is held; both are dropped after the comparison.
DcAssert(t) ==
    /\ dc[t].pc = "l265"
    /\ CanRead(peers_lock)
    /\ address_map_lock' = [address_map_lock EXCEPT !.readers = @ \ {t}]
    /\ dc' = [dc EXCEPT ![t].pc =
                IF Cardinality(DOMAIN address_map) = Cardinality(DOMAIN peers) THEN "l267" ELSE "panicked"]
    /\ obs' = NoObs
    /\ UNCHANGED <<dial_vars, pipeline_vars, dispatch_vars, crawler_vars, codec_vars, address_map, peers, peers_lock, debug_assertions, hs, connections, lk>>

\* lib.rs:267: address_map.write().remove(); the write guard is a temporary of
\* the if-let scrutinee and is held until the end of the if-let.
DcRemoveAddr(t) ==
    /\ dc[t].pc = "l267"
    /\ CanWrite(address_map_lock)
    /\ LET c == dc[t].disconnecting_addr IN
       IF ContainsKey(address_map, c)
       THEN /\ address_map' = MapRemove(address_map, c)
            /\ address_map_lock' = [address_map_lock EXCEPT !.writer = t]
            /\ dc' = [dc EXCEPT ![t].pc = "l268", ![t].listening_addr = address_map[c]]
            /\ UNCHANGED connections
       ELSE /\ dc' = [dc EXCEPT ![t] = DcDone]
            /\ connections' = connections \ {c}
            /\ UNCHANGED <<address_map, address_map_lock>>
    /\ obs' = IF ContainsKey(address_map, dc[t].disconnecting_addr) THEN NoObs ELSE DcReturn(dc[t].disconnecting_addr, NoAddr)
    /\ UNCHANGED <<dial_vars, pipeline_vars, dispatch_vars, crawler_vars, codec_vars, peers, peers_lock, debug_assertions, hs, lk>>

\* lib.rs:268-269: peers.write().remove(), then both guards are dropped.
\* pea2pea then removes the connection from its connected set.
DcRemovePeer(t) ==
    /\ dc[t].pc = "l268"
    /\ CanWrite(peers_lock)
    /\ peers' = MapRemove(peers, dc[t].listening_addr)
    /\ address_map_lock' = [address_map_lock EXCEPT !.writer = NoTask]
    /\ connections' = connections \ {dc[t].disconnecting_addr}
    /\ dc' = [dc EXCEPT ![t] = DcDone]
    /\ obs' = DcReturn(dc[t].disconnecting_addr, dc[t].listening_addr)
    /\ UNCHANGED <<dial_vars, pipeline_vars, dispatch_vars, crawler_vars, codec_vars, address_map, peers_lock, debug_assertions, hs, lk>>

-----------------------------------------------------------------------------
(* The lookups: get_peer_connected_addr and get_peer_listening_addr         *)
(* (lib.rs:104-115) and Crawler::is_connected (crawler.rs:123-132).  obs    *)
(* records what the last lookup returned and, in half, whether the entry it *)
(* read had its counterpart missing from the other map at that moment.      *)

LkIdle == [pc |-> "idle", addr |-> NoAddr]

\* The entry of peers for l is there and address_map has lost the entry of its
\* connected address.
HalfByListening(l) ==
    ContainsKey(peers, l) /\ ~ContainsKey(address_map, peers[l].connected_addr)

\* The entry of address_map for c is there without its entry of peers, or the
\* other way round.
HalfByConnected(c) ==
    \/ ContainsKey(address_map, c) /\ ~ContainsKey(peers, address_map[c])
    \/ ~ContainsKey(address_map, c) /\ \E l \in DOMAIN peers : peers[l].connected_addr = c

\* lib.rs:104-108.  The debug assertion reads the transport's connected set.
GetPeerConnectedAddr(l) ==
    /\ lk.pc = "idle"
    /\ IF debug_assertions /\ l \notin connections
       THEN obs' = [op |-> "get_peer_connected_addr", ret |-> <<"panic", 105>>, half |-> FALSE]
       ELSE /\ CanRead(peers_lock)
            /\ obs' = [op |-> "get_peer_connected_addr",
                       ret |-> IF ContainsKey(peers, l) THEN peers[l].connected_addr ELSE NoAddr,
                       half |-> HalfByListening(l)]
    /\ UNCHANGED <<dial_vars, pipeline_vars, dispatch_vars, crawler_vars, codec_vars, address_map, peers, address_map_lock, peers_lock, debug_assertions, hs, dc, connections, lk>>

\* lib.rs:112: the debug assertion looks the connected address up in peers;
\* its read guard is dropped at the end of the assertion.
GetPeerListeningAddrAssert(c) ==
    /\ lk.pc = "idle"
    /\ debug_assertions
    /\ CanRead(peers_lock)
    /\ IF ContainsKey(peers, c)
       THEN /\ lk' = [pc |-> "l114", addr |-> c]
            /\ obs' = NoObs
       ELSE /\ obs' = [op |-> "get_peer_listening_addr", ret |-> <<"panic", 112>>, half |-> FALSE]
            /\ UNCHANGED lk
    /\ UNCHANGED <<dial_vars, pipeline_vars, dispatch_vars, crawler_vars, codec_vars, address_map, peers, address_map_lock, peers_lock, debug_assertions, hs, dc, connections>>

\* lib.rs:114: address_map.read().get().
GetPeerListeningAddr(c) ==
    /\ \/ lk.pc = "idle" /\ ~debug_assertions
       \/ lk.pc = "l114" /\ lk.addr = c
    /\ CanRead(address_map_lock)
    /\ obs' = [op |-> "get_peer_listening_addr",
               ret |-> IF ContainsKey(address_map, c) THEN address_map[c] ELSE NoAddr,
               half |-> HalfByConnected(c)]
    /\ lk' = LkIdle
    /\ UNCHANGED <<dial_vars, pipeline_vars, dispatch_vars, crawler_vars, codec_vars, address_map, peers, address_map_lock, peers_lock, debug_assertions, hs, dc, connections>>

\* crawler.rs:123-132.
IsConnected(a) ==
    /\ lk.pc = "idle"
    /\ IF a \in Connecting \/ a \in connections
       THEN obs' = [op |-> "is_connected", ret |-> <<"true", 127>>, half |-> FALSE]
       ELSE /\ CanRead(peers_lock)
            /\ obs' = [op |-> "is_connected",
                       ret |-> IF ContainsKey(peers, a) THEN <<"true", 131>> ELSE <<"false", 131>>,
                       half |-> HalfByListening(a)]
    /\ UNCHANGED <<dial_vars, pipeline_vars, dispatch_vars, crawler_vars, codec_vars, address_map, peers, address_map_lock, peers_lock, debug_assertions, hs, dc, connections, lk>>

-----------------------------------------------------------------------------
(* The registry under concurrent handshakes, disconnects and lookups. *)

\* The crawler's own listening address and the addresses peers gossip.
OwnAddr == Addr("ipA", CrawlerPort)

GossipAddrs == ListeningAddrs \cup {<<"ipA", 4201>>}

\* The crawler at rest and an empty stream, which the registry's calls leave alone.
LoopIdle == [pc |-> "sleeping", addrs_to_disconnect |-> {}, disconnected |-> {}]

LoopPanicked == [LoopIdle EXCEPT !.pc = "panicked"]

\* The two ends of one connection, each a node running perform_handshake.
Ends == {"A", "B"}

\* An end that runs no handshake.
EndIdle == [step |-> 0, result |-> <<"none", 0>>, network |-> "none", connected |-> FALSE, known |-> FALSE]

\* The connected addresses of the peers that connect to the crawler.
InboundAddrs == {<<"ipA", 50001>>}

\* The dial tasks update_peers and process_peer_response spawn.
DialTasks == 1..MaxDials

\* A dial task that is not spawned yet.
DialIdle == [pc |-> "idle", origin |-> "none", addr |-> NoAddr, result |-> "none", calls |-> <<>>]

InitIdle ==
    /\ dials = [t \in DialTasks |-> DialIdle]
    /\ nodes = EmptyMap
    /\ edges = {}
    /\ spawned = [a \in GossipAddrs |-> 0]
    /\ connecting = {}
    /\ pending_dc = {}
    /\ loop = LoopIdle
    /\ round = 0
    /\ handled = 0
    /\ stream = <<>>
    /\ frames = <<>>
    /\ pos = 0
    /\ reader = "open"
    /\ undelivered = <<>>
    /\ response_tasks = {}
    /\ handshaken = {}

\* A node after construction: an empty registry, free locks, no call in progress.
InitNode ==
    /\ InitIdle
    /\ address_map = EmptyMap
    /\ peers = EmptyMap
    /\ address_map_lock = FreeLock
    /\ peers_lock = FreeLock
    /\ debug_assertions \in BOOLEAN
    /\ hs = [t \in HsTasks |-> HsIdle]
    /\ dc = [t \in DcTasks |-> DcIdle]
    /\ connections = {}
    /\ lk = LkIdle
    /\ obs = NoObs

InitRegistry ==
    /\ InitNode
    /\ ends = [e \in Ends |-> EndIdle]
    /\ wire = [e \in Ends |-> <<>>]

NextRegistry ==
    \/ \E t \in HsTasks : HsBegin(t)
    \/ \E t \in HsTasks : HsRecvRequest(t, {MESSAGE_VERSION})
    \/ \E t \in HsTasks : HsRecvResponse(t)
    \/ \E t \in HsTasks : HsRegister(t)
    \/ \E t \in DcTasks : DcBegin(t)
    \/ \E t \in DcTasks : DcAssert(t)
    \/ \E t \in DcTasks : DcRemoveAddr(t)
    \/ \E t \in DcTasks : DcRemovePeer(t)
    \/ \E l \in ListeningAddrs : GetPeerConnectedAddr(l)
    \/ \E c \in ConnectedAddrs : GetPeerListeningAddrAssert(c)
    \/ \E c \in ConnectedAddrs : GetPeerListeningAddr(c)
    \/ \E a \in ListeningAddrs : IsConnected(a)

SpecRegistry == InitRegistry /\ [][NextRegistry]_vars

\* The handshakes alone, the peers announcing either version.
InitHandshake ==
    /\ InitRegistry

NextHandshake ==
    \/ \E t \in HsTasks : HsBegin(t)
    \/ \E t \in HsTasks : HsRecvRequest(t, Versions)
    \/ \E t \in HsTasks : HsRecvResponse(t)
    \/ \E t \in HsTasks : HsRegister(t)

SpecHandshake == InitHandshake /\ [][NextHandshake]_vars

-----------------------------------------------------------------------------
(* Who holds which lock, and which lock a blocked task asks for next. *)

HoldsAddrMap(t) == address_map_lock.writer = t \/ t \in address_map_lock.readers

HoldsPeers(t) == peers_lock.writer = t \/ t \in peers_lock.readers

\* lib.rs:210: the handshake asks for address_map.write().
WantsAddrMap(t) == t \in HsTasks /\ hs[t].pc = "l210"

\* lib.rs:265 (right operand) and 268: the disconnect asks for peers.
WantsPeers(t) == t \in DcTasks /\ dc[t].pc \in {"l265", "l268"}

Tasks == HsTasks \cup DcTasks

\* A handle_disconnect call has removed the entry of address_map and not yet
\* the entry of peers.
HalfRemoved == \E l \in DOMAIN peers : HalfByListening(l)

-----------------------------------------------------------------------------
(* The claims. *)

\* C1: in every reachable state, every entry c -> l of address_map has an
\* entry peers[l] whose connected_addr is c.
C1_RegistryBijection ==
    \A c \in DOMAIN address_map :
        /\ ContainsKey(peers, address_map[c])
        /\ peers[address_map[c]].connected_addr = c

\* C1 witness: two peers were registered and a handle_disconnect call has
\* removed the address_map entry of one of them, not yet its entry of peers.
C1_Witness ==
    /\ Cardinality(DOMAIN address_map) = 1
    /\ Cardinality(DOMAIN peers) = 2
    /\ \E t \in DcTasks : dc[t].pc = "l268"

\* address_map maps no two connected addresses to one listening address.
AddressMapInjective ==
    \A c1, c2 \in DOMAIN address_map : address_map[c1] = address_map[c2] => c1 = c2

\* C2: of the handshakes of one peer (same listening address or same connected
\* address) at most one registers: a call passes a duplicate check only when
\* the registry has no entry for the peer; a call that reaches the re-check
\* while the registry has an entry for its connected or its listening address
\* returns AlreadyExists and leaves both maps as they are, and otherwise adds
\* exactly its own entry to each map; and address_map never maps two connected
\* addresses to one listening address.
C2_DuplicateRejection ==
    /\ []AddressMapInjective
    /\ [][\A t \in HsTasks :
            LET c == hs[t].peer_addr
                l == hs[t].peer_listening_addr
            IN  /\ (hs[t].pc = "idle" /\ hs'[t].pc = "l154")
                     => ~ContainsKey(address_map, hs'[t].peer_addr)
                /\ (hs[t].pc = "l154" /\ hs'[t].pc = "l199")
                     => ~ContainsKey(peers, hs'[t].peer_listening_addr)
                /\ (hs[t].pc = "l210" /\ hs'[t].pc = "idle")
                     => IF ContainsKey(address_map, c) \/ ContainsKey(peers, l)
                        THEN /\ obs' = HsReturn(c, "AlreadyExists", 213)
                             /\ address_map' = address_map
                             /\ peers' = peers
                        ELSE /\ obs' = HsReturn(c, "Ok", 232)
                             /\ address_map' = MapInsert(address_map, c, l)
                             /\ DOMAIN peers' = DOMAIN peers \cup {l}
                             /\ \A k \in DOMAIN peers : peers'[k] = peers[k]
                             /\ peers'[l].connected_addr = c]_vars

\* C2 witness: a handshake lost the race: it returned AlreadyExists from the
\* re-check under the locks, and the registry holds one entry in each map.
C2_Witness ==
    /\ obs = HsReturn(NoAddr, "AlreadyExists", 213)
    /\ Cardinality(DOMAIN address_map) = 1
    /\ Cardinality(DOMAIN peers) = 1

\* C3: no two tasks each wait for a registry lock the other holds (which the
\* order peers, then address_map, on every path would guarantee).
C3_NoCircularWait ==
    ~ \E t1, t2 \in Tasks :
        /\ HoldsPeers(t1) /\ WantsAddrMap(t1)
        /\ HoldsAddrMap(t2) /\ WantsPeers(t2)

\* C4: no lookup returns a value read from an entry whose counterpart in the
\* other map is missing.
C4_AtomicDisconnect == ~obs.half

(***************************************************************************)
(* The crawler: the peer-update loop, the dial and disconnect tasks it     *)
(* spawns, and the handlers of inbound messages.  A handshake is one step  *)
(* here; its interleavings are those of SpecRegistry.                      *)
(***************************************************************************)

\* constants.rs: the number of addresses update_peers samples per round.
NUM_CONCURRENT_CONNECTION_ATTEMPTS == 1

\* Where inbound peers connect from.
PeerLists == UNION {[1..n -> GossipAddrs] : n \in 0..MaxPeerList}

Min(a, b) == IF a < b THEN a ELSE b

RECURSIVE Sum(_, _)
Sum(f, S) == IF S = {} THEN 0 ELSE LET x == CHOOSE y \in S : TRUE IN f[x] + Sum(f, S \ {x})

Occurrences(list, a) == Cardinality({i \in DOMAIN list : list[i] = a})

\* KnownNetwork::received_ping: upsert the node, its state known.
ReceivedPing(ns, addr) == MapInsert(ns, addr, "Some")

\* received_peers giving the nodes it adds a known state.
ReceivedPeersNodesWithState(ns, list) == [a \in DOMAIN ns \cup {list[i] : i \in DOMAIN list} |-> IF a \in DOMAIN ns THEN ns[a] ELSE "Some"]

\* received_peers with a node for the first address of the list only.
ReceivedPeersNodesFirstOnly(ns, list) == [a \in DOMAIN ns \cup {list[i] : i \in DOMAIN list \cap {1}} |-> IF a \in DOMAIN ns THEN ns[a] ELSE "None"]

\* KnownNetwork::received_peers: an edge source -> q and a node for every q.
ReceivedPeersNodes(ns, list) == [a \in DOMAIN ns \cup {list[i] : i \in DOMAIN list} |-> IF a \in DOMAIN ns THEN ns[a] ELSE "None"]

ReceivedPeersEdges(es, source, list) == es \cup {<<source, list[i]>> : i \in DOMAIN list}

\* Crawler::is_connected, on the transport's sets and the registry.
IsConnectedTo(addr) == addr \in Connecting \/ addr \in connections \/ ContainsKey(peers, addr)

\* update_peers: addrs_to_connect() without addrs_to_disconnect().
ConnectCandidatesUnfiltered(addrs_to_connect, addrs_to_disconnect) == addrs_to_connect

ConnectCandidates(addrs_to_connect, addrs_to_disconnect) == addrs_to_connect \ addrs_to_disconnect

\* choose_multiple: amount elements, or all of them when there are fewer.
ChooseMultiple(candidates, amount) == {S \in SUBSET candidates : Cardinality(S) = Min(amount, Cardinality(candidates))}

\* What a round of update_peers spawned: the addresses dialed, the listening
\* addresses disconnected, and the size of the set the dialed ones were chosen from.
UpdateReturn(dialed, disconnected, candidates) == [op |-> "update_peers", ret |-> [dialed |-> dialed, disconnected |-> disconnected, candidates |-> candidates], half |-> FALSE]

\* A peer connects to the crawler and completes the handshake.
InboundConnect(c, port) ==
    LET l == PeerListeningAddr(c, port) IN
    /\ c \notin connections
    /\ ~RegisterRace(address_map, peers, c, l)
    /\ address_map' = MapInsert(address_map, c, l)
    /\ peers' = MapInsert(peers, l, NewClientPeer(c, MESSAGE_VERSION))
    /\ connections' = connections \cup {c}
    /\ obs' = NoObs
    /\ UNCHANGED <<dial_vars, pipeline_vars, dispatch_vars, codec_vars, sync_vars, debug_assertions, crawler_vars>>

\* crawler.rs:140: what send_broadcast returns to update_peers.
SendResults == {"Ok", "Err"}

\* update_peers up to the end of its disconnect loop: the result of the
\* broadcast is unwrapped (crawler.rs:140), which ends the task on an error; in
\* a debug build the assertion of get_peer_connected_addr ends the task at the
\* first listening address the transport is not connected to.
UpdateDisconnect(D) ==
    LET failing == {d \in D : d \notin connections}
        panics == debug_assertions /\ failing # {}
    IN
    /\ loop.pc = "sleeping"
    /\ D \subseteq DOMAIN nodes
    /\ \E broadcast \in SendResults :
          IF broadcast = "Err"
          THEN /\ loop' = LoopPanicked
               /\ UNCHANGED pending_dc
          ELSE \E done \in IF panics THEN SUBSET (D \ failing) ELSE {D} :
                  LET found == done \cap DOMAIN peers IN
                  /\ pending_dc' = pending_dc \cup {peers[d].connected_addr : d \in found}
                  /\ loop' = IF panics THEN LoopPanicked ELSE [pc |-> "l154", addrs_to_disconnect |-> D, disconnected |-> found]
    /\ round' = 0
    /\ obs' = NoObs
    /\ UNCHANGED <<dial_vars, pipeline_vars, dispatch_vars, codec_vars, address_map, peers, connections, debug_assertions, sync_vars, nodes, edges, spawned, connecting, handled>>

\* update_peers from addrs_to_connect() to the sleep.
UpdateConnect(C, S) ==
    LET candidates == ConnectCandidates(C, loop.addrs_to_disconnect)
        dial == {addr \in S : ~IsConnectedTo(addr)}
    IN
    /\ loop.pc = "l154"
    /\ C \subseteq DOMAIN nodes
    /\ S \in ChooseMultiple(candidates, NUM_CONCURRENT_CONNECTION_ATTEMPTS)
    /\ Sum(spawned, GossipAddrs) + Cardinality(dial) <= MaxDials
    /\ round + Cardinality(dial) <= MaxDials
    /\ spawned' = [a \in GossipAddrs |-> spawned[a] + IF a \in dial THEN 1 ELSE 0]
    /\ round' = round + Cardinality(dial)
    /\ loop' = LoopIdle
    /\ obs' = UpdateReturn(dial, loop.disconnected, Cardinality(candidates))
    /\ UNCHANGED <<dial_vars, pipeline_vars, dispatch_vars, codec_vars, address_map, peers, connections, debug_assertions, sync_vars, nodes, edges, connecting, pending_dc, handled>>

\* A dial task is polled: connect() fails at once on the node's own listening
\* address and on an address the transport is connecting or connected to.
DialStart(addr) ==
    /\ spawned[addr] > 0
    /\ spawned' = [spawned EXCEPT ![addr] = @ - 1]
    /\ connecting' = IF addr = OwnAddr \/ addr \in Connecting \cup connections THEN connecting ELSE connecting \cup {addr}
    /\ obs' = NoObs
    /\ UNCHANGED <<dial_vars, pipeline_vars, dispatch_vars, codec_vars, address_map, peers, connections, debug_assertions, sync_vars, nodes, edges, pending_dc, loop, round, handled>>

\* The attempt fails: refused, timed out, or the handshake returned an error.
DialFail(addr) ==
    /\ addr \in connecting
    /\ connecting' = connecting \ {addr}
    /\ obs' = NoObs
    /\ UNCHANGED <<dial_vars, pipeline_vars, dispatch_vars, codec_vars, address_map, peers, connections, debug_assertions, sync_vars, nodes, edges, spawned, pending_dc, loop, round, handled>>

\* The attempt succeeds and the handshake registers the peer, which
\* advertises the port it was dialed at.
DialSucceed(addr) ==
    LET l == PeerListeningAddr(addr, addr[2]) IN
    /\ addr \in connecting
    /\ ~RegisterRace(address_map, peers, addr, l)
    /\ address_map' = MapInsert(address_map, addr, l)
    /\ peers' = MapInsert(peers, l, NewClientPeer(addr, MESSAGE_VERSION))
    /\ connections' = connections \cup {addr}
    /\ connecting' = connecting \ {addr}
    /\ obs' = NoObs
    /\ UNCHANGED <<dial_vars, pipeline_vars, dispatch_vars, codec_vars, sync_vars, debug_assertions, nodes, edges, spawned, pending_dc, loop, round, handled>>

\* The connection to c ends, by a disconnect task or by the peer:
\* handle_disconnect, then the transport forgets the connection.
Disconnect(c) ==
    /\ c \in connections \cup pending_dc
    /\ address_map' = MapRemove(address_map, c)
    /\ peers' = IF ContainsKey(address_map, c) THEN MapRemove(peers, address_map[c]) ELSE peers
    /\ connections' = connections \ {c}
    /\ pending_dc' = pending_dc \ {c}
    /\ obs' = NoObs
    /\ UNCHANGED <<dial_vars, pipeline_vars, dispatch_vars, codec_vars, sync_vars, debug_assertions, nodes, edges, spawned, connecting, loop, round, handled>>

\* The task process_peer_response spawns, should_connect being the addresses
\* for which should_be_connected_to holds; the assertion of
\* get_peer_listening_addr ends it in a debug build when source is no key of peers.
ProcessPeerResponse(source, list) ==
    LET kept == SelectSeq(list, LAMBDA a : a # OwnAddr) IN
    /\ source \in connections
    /\ handled < MaxMessages
    /\ handled' = handled + 1
    /\ ~(debug_assertions /\ ~ContainsKey(peers, source))
    /\ IF ContainsKey(address_map, source)
         THEN /\ nodes' = ReceivedPeersNodes(nodes, kept)
              /\ edges' = ReceivedPeersEdges(edges, address_map[source], kept)
         ELSE UNCHANGED <<nodes, edges>>
    /\ \E should_connect \in SUBSET {kept[i] : i \in DOMAIN kept} :
          LET new == [a \in GossipAddrs |-> IF a \in should_connect /\ ~IsConnectedTo(a) THEN Occurrences(kept, a) ELSE 0]
              n == Sum(new, GossipAddrs)
          IN
          /\ Sum(spawned, GossipAddrs) + n <= MaxDials
          /\ round + n <= MaxDials
          /\ spawned' = [a \in GossipAddrs |-> spawned[a] + new[a]]
          /\ round' = round + n
    /\ obs' = NoObs
    /\ UNCHANGED <<dial_vars, pipeline_vars, dispatch_vars, codec_vars, address_map, peers, connections, debug_assertions, sync_vars, connecting, pending_dc, loop>>

\* process_ping: the sender becomes a node with a known state.
ProcessPing(source) ==
    /\ source \in connections
    /\ handled < MaxMessages
    /\ handled' = handled + 1
    /\ ~(debug_assertions /\ ~ContainsKey(peers, source))
    /\ ContainsKey(address_map, source)
    /\ nodes' = ReceivedPing(nodes, address_map[source])
    /\ obs' = NoObs
    /\ UNCHANGED <<dial_vars, pipeline_vars, dispatch_vars, codec_vars, address_map, peers, connections, debug_assertions, sync_vars, edges, spawned, connecting, pending_dc, loop, round>>

InitCrawler ==
    /\ InitRegistry

NextCrawler ==
    \/ \E c \in InboundAddrs, port \in ListeningPorts : InboundConnect(c, port)
    \/ \E D \in SUBSET GossipAddrs : UpdateDisconnect(D)
    \/ \E C \in SUBSET GossipAddrs, S \in SUBSET GossipAddrs : UpdateConnect(C, S)
    \/ \E addr \in GossipAddrs : DialStart(addr)
    \/ \E addr \in GossipAddrs : DialFail(addr)
    \/ \E addr \in GossipAddrs : DialSucceed(addr)
    \/ \E c \in InboundAddrs \cup GossipAddrs : Disconnect(c)
    \/ \E source \in InboundAddrs \cup GossipAddrs, list \in PeerLists : ProcessPeerResponse(source, list)
    \/ \E source \in InboundAddrs \cup GossipAddrs : ProcessPing(source)

SpecCrawler == InitCrawler /\ [][NextCrawler]_vars

-----------------------------------------------------------------------------
(* process_message (crawler.rs:298-332) and the handlers it calls, message by
   message: the reader of a connection hands its messages to process_message
   one at a time, in the order of their arrival. *)

SHARED_PEER_COUNT == 1

\* The address lists of the PeerResponses: the order of a list plays no part in
\* its handling, so one order of each is taken.
DispatchLists == {list \in PeerLists : \A i \in 1..(Len(list) - 1) : list[i][2] <= list[i + 1][2]}

\* The messages read_message returns as Handled to process_message: those of
\* the accepted IDs.
DispatchMessages ==
    {[kind |-> k, peer_addrs |-> <<>>] : k \in {"Disconnect", "PeerRequest", "Ping", "ChallengeRequest", "ChallengeResponse"}}
    \cup {[kind |-> "PeerResponse", peer_addrs |-> list] : list \in DispatchLists}

\* The nodes of the graph, whatever their state.
AllNodes(ns) == DOMAIN ns

\* crawler.rs:341: the nodes whose state is known.
KnownStateNodes(ns) == {a \in DOMAIN ns : ns[a] = "Some"}

\* The orders in which an iterator may hand out the elements of S, each once.
Enumerations(S) == {f \in [1..Cardinality(S) -> S] : \A a \in S : \E i \in DOMAIN f : f[i] = a}

\* crawler.rs:338-344: the addresses process_peer_request puts in its PeerResponse.
SharedPeers(ns) == UNION {Enumerations(S) : S \in ChooseMultiple(KnownStateNodes(ns), SHARED_PEER_COUNT)}

\* crawler.rs:353-354: the task spawned for a PeerResponse of source; current
\* tells whether the connection it arrived on is the latest one of source.
ResponseTask(source, peer_addrs, current) == [source |-> source, peer_addrs |-> peer_addrs, current |-> current]

\* The model follows one task of process_peer_response per peer address at a
\* time: the next PeerResponse of the address is taken up once the task of the
\* one before it has run.
HasPendingTask(source) == \E tk \in response_tasks : tk.source = source

\* What obs records when a handler has sent its answer to source.
HandlerReturn(op, source, answer) == [op |-> op, ret |-> [source |-> source, answer |-> answer], half |-> FALSE]

\* What a task of process_peer_response did to the graph: the list it
\* processed and the numbers of nodes and of connections it added.
GraphGrowth(kept, ns, ns2, es, es2) == [peer_addrs |-> kept, nodes |-> Cardinality(DOMAIN ns2) - Cardinality(DOMAIN ns), connections |-> Cardinality(es2) - Cardinality(es)]

\* crawler.rs:355: the crawler's own listening address is dropped from the list.
Retain(peer_addrs) == SelectSeq(peer_addrs, LAMBDA a : a # OwnAddr)

\* A peer connects and completes the handshake, advertising port; the tasks
\* still pending for its address are those of an earlier connection.
Accept(c, port) ==
    LET l == PeerListeningAddr(c, port) IN
    /\ c \notin connections
    /\ ~RegisterRace(address_map, peers, c, l)
    /\ address_map' = MapInsert(address_map, c, l)
    /\ peers' = MapInsert(peers, l, NewClientPeer(c, MESSAGE_VERSION))
    /\ connections' = connections \cup {c}
    /\ handshaken' = handshaken \cup {l}
    /\ response_tasks' = {IF tk.source = c THEN [tk EXCEPT !.current = FALSE] ELSE tk : tk \in response_tasks}
    /\ obs' = NoObs
    /\ UNCHANGED <<dial_vars, pipeline_vars, codec_vars, crawler_vars, sync_vars, debug_assertions>>

\* crawler.rs:298-332: the next message m of the connection from source is
\* handled.  A Disconnect is logged; a PeerRequest is answered by
\* process_peer_request; for a PeerResponse process_peer_response spawns its
\* task and returns; a Ping goes to process_ping, which updates the node of the
\* sender's listening address when the registry has one and sends a Pong,
\* unless the header of the Ping does not decode (crawler.rs:318) or, in a debug
\* build, source is no key of peers: the assertion of get_peer_listening_addr
\* (lib.rs:112) then panics before anything is updated or sent.  Every other
\* message, a ChallengeRequest or a ChallengeResponse here, runs into the
\* unreachable!() of crawler.rs:321, a panic in every build.
ProcessMessage(source, m) ==
    /\ source \in connections
    /\ CASE m.kind = "Disconnect" ->
              /\ obs' = HandlerReturn("process_message", source, "none")
              /\ UNCHANGED <<nodes, response_tasks>>
         [] m.kind = "PeerRequest" ->
              /\ \E answer \in SharedPeers(nodes) : obs' = HandlerReturn("process_peer_request", source, answer)
              /\ UNCHANGED <<nodes, response_tasks>>
         [] m.kind = "PeerResponse" ->
              /\ ~HasPendingTask(source)
              /\ response_tasks' = response_tasks \cup {ResponseTask(source, m.peer_addrs, TRUE)}
              /\ obs' = NoObs
              /\ UNCHANGED nodes
         [] m.kind = "Ping" ->
              /\ \E decodes \in BOOLEAN :
                    IF ~decodes
                    THEN /\ obs' = HandlerReturn("process_message", source, "InvalidData")
                         /\ UNCHANGED nodes
                    ELSE IF debug_assertions /\ ~ContainsKey(peers, source)
                    THEN /\ obs' = HandlerReturn("process_ping", source, "panic")
                         /\ UNCHANGED nodes
                    ELSE /\ nodes' = IF ContainsKey(address_map, source) THEN ReceivedPing(nodes, address_map[source]) ELSE nodes
                         /\ obs' = HandlerReturn("process_ping", source, "Pong")
              /\ UNCHANGED response_tasks
         [] m.kind \in {"ChallengeRequest", "ChallengeResponse"} ->
              /\ obs' = HandlerReturn("process_message", source, "unreachable")
              /\ UNCHANGED <<nodes, response_tasks>>
    /\ UNCHANGED <<dial_vars, pipeline_vars, codec_vars, address_map, peers, connections, debug_assertions, sync_vars, edges, spawned, connecting, pending_dc, loop, round, handled, handshaken>>

\* crawler.rs:354-384: a task spawned by process_peer_response runs: the
\* sender's peers enter the graph when the registry still has the sender, and
\* a dial task is spawned for every address the crawler is not connected to
\* and should be (should_connect).
PeerResponseTask(tk) ==
    LET kept == Retain(tk.peer_addrs)
        registered == ContainsKey(address_map, tk.source)
    IN
    /\ tk \in response_tasks
    /\ response_tasks' = response_tasks \ {tk}
    /\ ~(debug_assertions /\ ~ContainsKey(peers, tk.source))
    /\ IF registered
         THEN /\ nodes' = ReceivedPeersNodes(nodes, kept)
              /\ edges' = ReceivedPeersEdges(edges, address_map[tk.source], kept)
         ELSE UNCHANGED <<nodes, edges>>
    /\ \E should_connect \in SUBSET {kept[i] : i \in DOMAIN kept} :
          LET new == [a \in GossipAddrs |-> IF a \in should_connect /\ ~IsConnectedTo(a) THEN Occurrences(kept, a) ELSE 0]
              n == Sum(new, GossipAddrs)
          IN
          /\ Sum(spawned, GossipAddrs) + n <= MaxDials
          /\ spawned' = [a \in GossipAddrs |-> spawned[a] + new[a]]
          /\ round' = round + n
    /\ obs' = HandlerReturn("peer_response_task", tk.source, GraphGrowth(kept, nodes, nodes', edges, edges'))
    /\ UNCHANGED <<dial_vars, pipeline_vars, codec_vars, address_map, peers, connections, debug_assertions, sync_vars, connecting, pending_dc, loop, handled, handshaken>>

InitDispatch ==
    /\ InitRegistry

NextDispatch ==
    \/ \E c \in InboundAddrs, port \in ListeningPorts : Accept(c, port)
    \/ \E c \in InboundAddrs : Disconnect(c)
    \/ \E source \in InboundAddrs, m \in DispatchMessages : ProcessMessage(source, m)
    \/ \E source \in InboundAddrs, list \in DispatchLists, current \in BOOLEAN : PeerResponseTask(ResponseTask(source, list, current))

SpecDispatch == InitDispatch /\ [][NextDispatch]_vars

(***************************************************************************)
(* The frame codec: write_message frames a message; read_message parses    *)
(* the next frame of the stream, decoding it or discarding it.  A byte is  *)
(* a number in 0..255.                                                     *)
(***************************************************************************)

\* The most frames written to the stream.
MaxFrames == 2

\* The longest payload length a peer's raw frame announces.
MaxRawLen == 7

MESSAGE_LENGTH_PREFIX_SIZE == 4

\* constants.rs: the size of read_message's buffer, scaled to the messages
\* modelled: "just enough to read the longest expected message".
READ_BUFFER_SIZE == 5

\* Message::id.
MessageId(name) ==
    CASE name = "BlockRequest" -> 0
      [] name = "ChallengeRequest" -> 2
      [] name = "ChallengeResponse" -> 3
      [] name = "Disconnect" -> 4
      [] name = "PeerRequest" -> 5
      [] name = "PeerResponse" -> 6
      [] name = "Ping" -> 7
      [] name = "Pong" -> 8

\* constants.rs: the messages the crawler decodes.
ACCEPTED_MESSAGE_IDS == {MessageId(name) : name \in {"Disconnect", "PeerRequest", "PeerResponse", "Ping", "ChallengeRequest", "ChallengeResponse"}}

Message(name, payload) == [name |-> name, payload |-> payload]

NoMessage == Message("none", <<>>)

\* The messages the crawler emits: the payload is the sequence of the fields modelled.
EmittedMessages ==
    {Message("PeerRequest", <<>>), Message("Pong", <<>>)}
    \cup {Message("PeerResponse", addrs) : addrs \in {<<>>, <<1>>, <<1, 2>>}}
    \cup {Message("ChallengeRequest", <<MESSAGE_VERSION, port>>) : port \in ListeningPorts}
    \cup {Message("ChallengeResponse", <<header>>) : header \in {1}}

\* The messages peers send besides.
ReceivedMessages == {Message("Ping", <<MESSAGE_VERSION, 3>>), Message("Disconnect", <<0>>)}

ToLeBytes(n, width) == [i \in 1..width |-> (n \div (256 ^ (i - 1))) % 256]

U16FromLeBytes(bytes) == bytes[1] + 256 * bytes[2]

\* The length prefix read the other way round.
U32FromBeBytes(bytes) == bytes[4] + 256 * bytes[3] + 65536 * bytes[2] + 16777216 * bytes[1]

U32FromLeBytes(bytes) == bytes[1] + 256 * bytes[2] + 65536 * bytes[3] + 16777216 * bytes[4]

\* Message::serialize_into: the ID, then the fields.
Serialize(m) ==
    ToLeBytes(MessageId(m.name), 2) \o
    CASE m.name = "PeerResponse" -> <<Len(m.payload)>> \o m.payload
      [] m.name = "ChallengeRequest" -> <<m.payload[1]>> \o ToLeBytes(m.payload[2], 2)
      [] m.name = "Pong" -> <<0>>
      [] OTHER -> m.payload

\* Message::deserialize: NoMessage stands for an error.
Deserialize(bytes) ==
    LET id == U16FromLeBytes(bytes)
        body == SubSeq(bytes, 3, Len(bytes))
    IN
    CASE id = MessageId("PeerRequest") /\ body = <<>> -> Message("PeerRequest", <<>>)
      [] id = MessageId("PeerResponse") /\ Len(body) >= 1 /\ body[1] = Len(body) - 1 -> Message("PeerResponse", Tail(body))
      [] id = MessageId("ChallengeRequest") /\ Len(body) = 3 -> Message("ChallengeRequest", <<body[1], U16FromLeBytes(Tail(body))>>)
      [] id = MessageId("ChallengeResponse") /\ Len(body) = 1 -> Message("ChallengeResponse", body)
      [] id = MessageId("Ping") /\ Len(body) = 2 -> Message("Ping", body)
      [] id = MessageId("Disconnect") /\ Len(body) = 1 -> Message("Disconnect", body)
      [] id = MessageId("Pong") /\ body = <<0>> -> Message("Pong", <<>>)
      [] OTHER -> NoMessage

\* write_message: the length of the serialized message, then the message.
WriteMessage(payload) == ToLeBytes(Len(Serialize(payload)), MESSAGE_LENGTH_PREFIX_SIZE) \o Serialize(payload)

\* A read that fills the buffer whatever is there, with zeros past the end.
ReadZeroFilled(bytes, n) == SubSeq(bytes \o [i \in 1..n |-> 0], 1, n)

\* io::Read::read into a buffer of n bytes, and what it leaves.
Read(bytes, n) == SubSeq(bytes, 1, Min(n, Len(bytes)))

Rest(bytes, n) == SubSeq(bytes, n + 1, Len(bytes))

ReadReturn(kind, id, msg, consumed) == [kind |-> kind, id |-> id, msg |-> msg, consumed |-> consumed]

\* The bytes to discard, counted without the ID's two.
DiscardCountWithId(len) == len

DiscardCount(len) == len - 2

\* read_message on the bytes not yet consumed; an overflow panics in a build
\* with overflow checks and wraps in one without.
ReadMessage(bytes, overflow_checks) ==
    LET prefix == Read(bytes, MESSAGE_LENGTH_PREFIX_SIZE)
        len == U32FromLeBytes(prefix \o [i \in 1..(MESSAGE_LENGTH_PREFIX_SIZE - Len(prefix)) |-> 0])
        id_bytes == Read(Rest(bytes, Len(prefix)), 2)
        message_id == U16FromLeBytes(id_bytes)
        body_bytes == Rest(bytes, Len(prefix) + 2)
        header_len == MESSAGE_LENGTH_PREFIX_SIZE + 2
    IN
    IF Len(prefix) < 2 THEN ReadReturn("None", 0, NoMessage, Len(prefix))
    ELSE IF Len(id_bytes) < 2 THEN ReadReturn("None", 0, NoMessage, Len(prefix) + Len(id_bytes))
    ELSE IF message_id \notin ACCEPTED_MESSAGE_IDS \/ len > READ_BUFFER_SIZE
      THEN IF len < 2
             THEN IF overflow_checks
                    THEN ReadReturn("Panic", message_id, NoMessage, Len(prefix) + 2)
                    ELSE ReadReturn("None", message_id, NoMessage, Len(bytes))
             ELSE IF Len(Read(body_bytes, DiscardCount(len))) # DiscardCount(len)
                    THEN ReadReturn("None", message_id, NoMessage, Len(bytes))
                    ELSE ReadReturn("Unhandled", message_id, NoMessage, header_len + DiscardCount(len))
    ELSE IF len < 2 THEN ReadReturn("Panic", message_id, NoMessage, Len(prefix) + 2)
    ELSE IF Len(Read(body_bytes, len - 2)) # len - 2
      THEN ReadReturn("None", message_id, NoMessage, Len(bytes))
    ELSE LET msg == Deserialize(id_bytes \o Read(body_bytes, len - 2)) IN
         IF msg = NoMessage
           THEN ReadReturn("Err", message_id, NoMessage, header_len + len - 2)
           ELSE ReadReturn("Handled", message_id, msg, header_len + len - 2)

\* What the frame written holds: the length announced, the ID and, from
\* write_message, the message.
Frame(len, id, msg) == [start |-> Len(stream), len |-> len, id |-> id, msg |-> msg]

\* A node frames a message for the crawler.
SendMessage(payload) ==
    /\ Len(frames) < MaxFrames
    /\ undelivered = <<>>
    /\ stream' = stream \o WriteMessage(payload)
    /\ frames' = Append(frames, Frame(Len(Serialize(payload)), MessageId(payload.name), payload))
    /\ obs' = NoObs
    /\ UNCHANGED <<dial_vars, pipeline_vars, dispatch_vars, crawler_vars, address_map, peers, connections, debug_assertions, sync_vars, pos, reader, undelivered>>

\* A peer writes a frame of its own making: len bytes after the prefix, the
\* first two the ID when there is room for it.
SendRaw(len, id) ==
    LET body == SubSeq(ToLeBytes(id, 2) \o [i \in 1..len |-> 0], 1, len) IN
    /\ Len(frames) < MaxFrames
    /\ undelivered = <<>>
    /\ stream' = stream \o ToLeBytes(len, MESSAGE_LENGTH_PREFIX_SIZE) \o body
    /\ frames' = Append(frames, Frame(len, IF len >= 2 THEN id ELSE 0, NoMessage))
    /\ obs' = NoObs
    /\ UNCHANGED <<dial_vars, pipeline_vars, dispatch_vars, crawler_vars, address_map, peers, connections, debug_assertions, sync_vars, pos, reader, undelivered>>

\* The reader calls read_message on what the stream holds: a message moves
\* the position on, None leaves it, an error or a panic ends the reader.
ReadStep ==
    LET r == ReadMessage(Rest(stream, pos), debug_assertions) IN
    /\ reader = "open"
    /\ obs' = [op |-> "read_message", ret |-> [start |-> pos, kind |-> r.kind, id |-> r.id, msg |-> r.msg, consumed |-> r.consumed], half |-> FALSE]
    /\ pos' = IF r.kind \in {"Handled", "Unhandled"} THEN pos + r.consumed ELSE pos
    /\ reader' = IF r.kind \in {"Err", "Panic"} THEN "closed" ELSE "open"
    /\ UNCHANGED <<dial_vars, pipeline_vars, dispatch_vars, crawler_vars, address_map, peers, connections, debug_assertions, sync_vars, stream, frames, undelivered>>

RawIds == {MessageId(name) : name \in {"BlockRequest", "PeerRequest", "Pong"}}

\* The bytes of a peer's frame: the prefix announcing len, then len bytes.
RawFrame(len, id) == ToLeBytes(len, MESSAGE_LENGTH_PREFIX_SIZE) \o SubSeq(ToLeBytes(id, 2) \o [i \in 1..len |-> 0], 1, len)

\* A peer writes a frame of which the first n bytes reach the crawler now:
\* the connection delivers the bytes of a frame in pieces of any size.
SendSplit(len, id, n) ==
    LET bytes == RawFrame(len, id) IN
    /\ Len(frames) < MaxFrames
    /\ undelivered = <<>>
    /\ n \in 1..(Len(bytes) - 1)
    /\ stream' = stream \o SubSeq(bytes, 1, n)
    /\ undelivered' = SubSeq(bytes, n + 1, Len(bytes))
    /\ frames' = Append(frames, Frame(len, IF len >= 2 THEN id ELSE 0, NoMessage))
    /\ obs' = NoObs
    /\ UNCHANGED <<dial_vars, pipeline_vars, dispatch_vars, crawler_vars, address_map, peers, connections, debug_assertions, sync_vars, pos, reader>>

\* The rest of the frame reaches the crawler.
Deliver ==
    /\ undelivered # <<>>
    /\ stream' = stream \o undelivered
    /\ undelivered' = <<>>
    /\ obs' = NoObs
    /\ UNCHANGED <<dial_vars, pipeline_vars, dispatch_vars, crawler_vars, address_map, peers, connections, debug_assertions, sync_vars, frames, pos, reader>>

InitCodec ==
    /\ InitRegistry

NextCodec ==
    \/ \E payload \in EmittedMessages \cup ReceivedMessages : SendMessage(payload)
    \/ \E len \in 0..MaxRawLen, id \in RawIds : SendRaw(len, id)
    \/ ReadStep

SpecCodec == InitCodec /\ [][NextCodec]_vars

\* The IDs of the frames that arrive in pieces: one that is accepted, one that is not.
SplitIds == {MessageId(name) : name \in {"BlockRequest", "PeerRequest"}}

InitStream ==
    /\ InitRegistry

NextStream ==
    \/ \E len \in 0..MaxRawLen, id \in SplitIds, n \in 1..(MESSAGE_LENGTH_PREFIX_SIZE + MaxRawLen) : SendSplit(len, id, n)
    \/ Deliver
    \/ ReadStep

SpecStream == InitStream /\ [][NextStream]_vars

(***************************************************************************)
(* Claims about the crawler.                                               *)
(***************************************************************************)

\* C5: in every round of the peer-update loop the listening addresses a dial
\* task is spawned for and those a disconnect task is spawned for are disjoint.
C5_PolicyDisjointness == obs.op = "update_peers" => obs.ret.dialed \cap obs.ret.disconnected = {}

\* A round that spawned a disconnect task and a dial task.
C5_Witness == obs.op = "update_peers" /\ obs.ret.dialed # {} /\ obs.ret.disconnected # {}

\* The dial tasks in flight for an address: spawned, or inside connect().
InFlight(addr) == spawned[addr] + IF addr \in connecting THEN 1 ELSE 0

\* C6: no address has two dial tasks in flight at the same time.
C6_SingleDialPerAddress == \A addr \in GossipAddrs : InFlight(addr) <= 1

\* C7: between two wake-ups of the peer-update loop the crawler spawns at most
\* NUM_CONCURRENT_CONNECTION_ATTEMPTS dial tasks, those of update_peers and
\* those of process_peer_response counted together.
C7_BoundedFanOut == round <= NUM_CONCURRENT_CONNECTION_ATTEMPTS

\* C8: the crawler's own listening address is no node of the known-network
\* graph and no endpoint of an edge.
C8_NoSelfLoop == OwnAddr \notin DOMAIN nodes /\ \A e \in edges : e[1] # OwnAddr /\ e[2] # OwnAddr

(***************************************************************************)
(* Claims about the frame codec.                                           *)
(***************************************************************************)

\* The frames that start where the last read_message started.
FramesRead == {k \in DOMAIN frames : obs.op = "read_message" /\ frames[k].start = obs.ret.start}

Discarded(k) == frames[k].len >= 2 /\ (frames[k].id \notin ACCEPTED_MESSAGE_IDS \/ frames[k].len > READ_BUFFER_SIZE)

NextFrameStart(k) == IF k < Len(frames) THEN frames[k + 1].start ELSE Len(stream)

\* C9: for a complete frame whose ID is not accepted or whose length L exceeds
\* the read buffer, read_message consumes the 4-byte prefix and the L payload
\* bytes, yields Unhandled(id) without error, and leaves the reader at the
\* first byte of the next frame.
C9_DiscardKeepsSync == \A k \in FramesRead : Discarded(k) => obs.ret.kind = "Unhandled" /\ obs.ret.id = frames[k].id /\ obs.ret.consumed = MESSAGE_LENGTH_PREFIX_SIZE + frames[k].len /\ pos = NextFrameStart(k) /\ reader = "open"

\* A frame of an accepted ID, longer than the buffer, discarded before another frame.
C9_Witness == \E k \in FramesRead : k < Len(frames) /\ frames[k].id \in ACCEPTED_MESSAGE_IDS /\ frames[k].len > READ_BUFFER_SIZE /\ obs.ret.kind = "Unhandled" /\ pos = frames[k + 1].start

\* C10: a message the crawler emits, framed by write_message and parsed by
\* read_message, comes back as a Handled message equal to the original.
C10_RoundTrip == \A k \in FramesRead : frames[k].msg \in EmittedMessages => obs.ret.kind = "Handled" /\ obs.ret.msg = frames[k].msg

\* C10, amended: an emitted message whose ID is accepted comes back Handled and
\* equal; Pong, whose ID is not, has its frame consumed and comes back Unhandled.
C10_RoundTripAccepted == \A k \in FramesRead : frames[k].msg \in EmittedMessages => IF frames[k].id \in ACCEPTED_MESSAGE_IDS THEN obs.ret.kind = "Handled" /\ obs.ret.msg = frames[k].msg ELSE obs.ret.kind = "Unhandled" /\ obs.ret.id = MessageId("Pong") /\ pos = NextFrameStart(k)

\* A PeerResponse of two addresses read back after another frame.
C10_Witness == \E k \in FramesRead : k > 1 /\ frames[k].msg = Message("PeerResponse", <<1, 2>>) /\ obs.ret.kind = "Handled" /\ obs.ret.msg = frames[k].msg

-----------------------------------------------------------------------------
(* The handshake's contract, checked under SpecHandshake. *)

\* A challenge request announcing version v and listening port p.
ChallengeRequest(v, p) == [kind |-> "ChallengeRequest", version |-> v, port |-> p]

\* The challenge response carrying the genesis block header.
GenesisResponse == [kind |-> "ChallengeResponse", header |-> "genesis"]

\* C11: the outcome of perform_handshake does not depend on the version the
\* peer announces: for a connection whose challenge request is awaited, requests
\* that differ in the version only get the same outcome, and a request of a
\* peer that is not registered is accepted whatever its version; the call then
\* keeps the announced version and (peer IP, advertised port); the genesis
\* response is accepted; and a call that reaches the registration for a peer
\* that is no duplicate returns Ok, with address_map[connected address] =
\* (peer IP, advertised port) and the peers entry under that key holding the
\* announced version and the connected address.
C11_VersionSkewTolerance ==
    [][\A t \in HsTasks :
        LET c == hs[t].peer_addr
            l == hs[t].peer_listening_addr
        IN  /\ hs[t].pc = "l154" =>
                \A p \in ListeningPorts : \A v1, v2 \in Versions :
                    /\ RequestOutcome(ChallengeRequest(v1, p), peers, PeerListeningAddr(c, p))
                         = RequestOutcome(ChallengeRequest(v2, p), peers, PeerListeningAddr(c, p))
                    /\ ~ContainsKey(peers, PeerListeningAddr(c, p))
                         => RequestOutcome(ChallengeRequest(v1, p), peers, PeerListeningAddr(c, p))[1] = "go on"
            /\ (hs[t].pc = "l154" /\ hs'[t].pc = "l199") =>
                \E p \in ListeningPorts :
                    /\ hs'[t].peer_listening_addr = Addr(IpOf(c), p)
                    /\ hs'[t].peer_version \in Versions
            /\ hs[t].pc = "l199" => ResponseOutcome(GenesisResponse)[1] = "go on"
            /\ (hs[t].pc = "l210" /\ hs'[t].pc = "idle" /\ ~RegisterRace(address_map, peers, c, l)) =>
                /\ obs' = HsReturn(c, "Ok", 232)
                /\ address_map' = MapInsert(address_map, c, l)
                /\ peers' = MapInsert(peers, l, NewClientPeer(c, hs[t].peer_version))
                /\ IpOf(l) = IpOf(c)]_vars

\* C11 witness: a handshake returned Ok and the registry holds the entry of a
\* peer that announced MESSAGE_VERSION - 1.
C11_Witness ==
    /\ obs = HsReturn(NoAddr, "Ok", 232)
    /\ \E l \in DOMAIN peers : peers[l].peer_version = MESSAGE_VERSION - 1

\* A first or second message of kind k that is no challenge.
FirstMessage(k) == [kind |-> k, version |-> 0, port |-> 0]
SecondMessage(k) == [kind |-> k, header |-> "none"]

C13_ResponseErrorsAreInvalidData ==
    [][\A t \in HsTasks :
        (hs[t].pc = "l199" /\ hs'[t].pc = "idle") =>
            /\ obs'.ret[1] \in {"InvalidData", "UnexpectedEof"}
            /\ address_map' = address_map
            /\ peers' = peers]_vars

\* C13, amended: the call goes on to the registration only on a challenge
\* response that carries the genesis header, and address_map and peers change
\* only in the registration; a second message Disconnect makes the call fail
\* with NotConnected, another message that is no challenge response and a
\* response with another block's header make it fail with InvalidData; a call
\* that ends on its second message returns from one of the branches of
\* lib.rs:198-243 (or aborts in them) and registers nothing.
C13_ResponseErrors ==
    [][/\ \A t \in HsTasks :
            /\ hs[t].pc = "l199" =>
                /\ \A m \in SecondMessages : ResponseOutcome(m)[1] = "go on" <=> m = GenesisResponse
                /\ ResponseOutcome(SecondMessage("Disconnect")) = <<"NotConnected", 239>>
                /\ ResponseOutcome(SecondMessage("Other")) = <<"InvalidData", 242>>
                /\ ResponseOutcome([kind |-> "ChallengeResponse", header |-> "other"]) = <<"InvalidData", 235>>
            /\ (hs[t].pc = "l199" /\ hs'[t].pc = "idle") =>
                /\ obs'.op = "perform_handshake"
                /\ obs'.ret \in {<<"NotConnected", 239>>, <<"InvalidData", 242>>, <<"InvalidData", 235>>,
                                 <<"UnexpectedEof", 201>>, <<"panic", 201>>, <<"panic", 205>>}
                /\ address_map' = address_map
                /\ peers' = peers
       /\ (address_map' # address_map \/ peers' # peers) =>
            \E t \in HsTasks : hs[t].pc = "l210" /\ hs'[t].pc = "idle"]_vars

\* C13 witness: a handshake returned NotConnected on its second message while
\* the registry held the entry of another peer.
C13_Witness ==
    /\ obs = HsReturn(NoAddr, "NotConnected", 239)
    /\ Cardinality(DOMAIN address_map) = 1
    /\ Cardinality(DOMAIN peers) = 1

-----------------------------------------------------------------------------
(* The message handlers' contract, checked under SpecDispatch. *)

\* C14: every address in the PeerResponse process_peer_request sends is a
\* graph node whose state is known, no address is in it twice, and it holds
\* SHARED_PEER_COUNT addresses, or all the nodes of known state when there are
\* fewer.
C14_NoRumorLeak ==
    obs.op = "process_peer_request" =>
        LET answer == obs.ret.answer IN
        /\ \A i \in DOMAIN answer : ContainsKey(nodes, answer[i]) /\ nodes[answer[i]] = "Some"
        /\ \A i, j \in DOMAIN answer : answer[i] = answer[j] => i = j
        /\ Len(answer) <= SHARED_PEER_COUNT
        /\ Len(answer) = Min(SHARED_PEER_COUNT, Cardinality({a \in DOMAIN nodes : nodes[a] = "Some"}))

\* C14 witness: a PeerRequest was answered with one address while the graph
\* held two nodes of known state and a node known from gossip only.
C14_Witness ==
    /\ obs.op = "process_peer_request"
    /\ Len(obs.ret.answer) = 1
    /\ Cardinality({a \in DOMAIN nodes : nodes[a] = "Some"}) = 2
    /\ \E a \in DOMAIN nodes : nodes[a] = "None"

HasState(ns, a) == ContainsKey(ns, a) /\ ns[a] = "Some"

\* C16: a graph node whose state is known has a listening address for which a
\* handshake completed earlier; and a node gets a known state only in
\* process_ping, for the listening address the registry holds for the
\* connection the Ping arrived on.
C16_StateImpliesHandshake ==
    /\ [](\A a \in DOMAIN nodes : nodes[a] = "Some" => a \in handshaken)
    /\ [][\A a \in GossipAddrs :
            (HasState(nodes', a) /\ ~HasState(nodes, a)) =>
                /\ obs'.op = "process_ping"
                /\ ContainsKey(address_map, obs'.ret.source)
                /\ address_map[obs'.ret.source] = a]_vars

\* C16 witness: a node has a known state and its peer, handshaken earlier, has
\* disconnected since the Ping.
C16_Witness ==
    \E a \in DOMAIN nodes :
        /\ nodes[a] = "Some"
        /\ a \in handshaken
        /\ ~ContainsKey(peers, a)

\* C17: when a Ping or a PeerRequest of a connection has been handled, no task
\* spawned for an earlier PeerResponse of that connection, with addresses to
\* enter in the graph, is still to run: the graph update of the earlier message
\* has taken place.
C17_PerConnectionOrder ==
    obs.op \in {"process_ping", "process_peer_request"} =>
        ~\E tk \in response_tasks :
            /\ tk.source = obs.ret.source
            /\ tk.current
            /\ Retain(tk.peer_addrs) # <<>>

-----------------------------------------------------------------------------
(* The peer-update loop's error handling, checked under SpecCrawler. *)

\* C18: the peer-update loop is never stopped: neither a failed broadcast nor a
\* failure of a peer or a connection ends its task.
C18_LoopNeverStops == loop.pc # "panicked"

-----------------------------------------------------------------------------
(* The disconnect's contract, checked under SpecRegistry. *)

\* C19: a handle_disconnect(c) call that finds c in address_map removes that
\* entry and nothing else, and then removes from peers the entry of c's
\* listening address and nothing else; when it has completed, address_map has
\* no entry for c and peers none for c's listening address; a call that does
\* not find c in address_map completes leaving both maps as they are.
C19_DisconnectCleanup ==
    /\ [](obs.op = "handle_disconnect" =>
            /\ ~ContainsKey(address_map, obs.ret[1])
            /\ obs.ret[2] # NoAddr => ~ContainsKey(peers, obs.ret[2]))
    /\ [][\A t \in DcTasks :
            LET c == dc[t].disconnecting_addr
                l == dc[t].listening_addr
            IN  /\ (dc[t].pc = "l267" /\ dc'[t].pc = "l268") =>
                    /\ ContainsKey(address_map, c)
                    /\ dc'[t].listening_addr = address_map[c]
                    /\ DOMAIN address_map' = DOMAIN address_map \ {c}
                    /\ \A k \in DOMAIN address_map' : address_map'[k] = address_map[k]
                    /\ peers' = peers
                /\ (dc[t].pc = "l267" /\ dc'[t].pc = "idle") =>
                    /\ ~ContainsKey(address_map, c)
                    /\ obs' = DcReturn(c, NoAddr)
                    /\ address_map' = address_map
                    /\ peers' = peers
                /\ (dc[t].pc = "l268" /\ dc'[t].pc = "idle") =>
                    /\ obs' = DcReturn(c, l)
                    /\ address_map' = address_map
                    /\ DOMAIN peers' = DOMAIN peers \ {l}
                    /\ \A k \in DOMAIN peers' : peers'[k] = peers[k]
                /\ (dc[t].pc = "l268" /\ dc'[t].pc = "l268") =>
                    (address_map' = address_map /\ peers' = peers)]_vars

\* C19 witness: handle_disconnect has completed for a registered peer, whose
\* entries are gone, while another peer is still registered.
C19_Witness ==
    /\ obs.op = "handle_disconnect"
    /\ obs.ret[2] # NoAddr
    /\ Cardinality(DOMAIN address_map) = 1
    /\ Cardinality(DOMAIN peers) = 1

-----------------------------------------------------------------------------
(* Two nodes that run perform_handshake (lib.rs:121-244) with each other over
   one reliable connection.  An end that returns an error drops the connection;
   the other end then reads what was sent to it and after that the end of the
   stream. *)

Networks == {"mainnet", "testnet"}

\* The order of the writes and reads of perform_handshake: the challenge
\* request is written (lib.rs:148) before the peer's is read (lib.rs:154), and
\* the challenge response is written (lib.rs:196) before the peer's is read
\* (lib.rs:199).
ReadFirstOrder == <<"l154", "l148", "l199", "l196">>

HandshakeOrder == <<"l148", "l154", "l196", "l199">>

Peer(e) == CHOOSE f \in Ends : f # e

\* A dialled B: the address each end's connection has at its peer, and the
\* port each end listens on and advertises.
EndAddr(e) == IF e = "A" THEN <<"ipA", 50001>> ELSE <<"ipA", 4200>>

EndPort(e) == IF e = "A" THEN CrawlerPort ELSE 4200

\* The line an end is at, "returned" once its call has returned.
At(e) == IF ends[e].step \in DOMAIN HandshakeOrder THEN HandshakeOrder[ends[e].step] ELSE "returned"

Returned(e, result) == [ends[e] EXCEPT !.step = Len(HandshakeOrder) + 1, !.result = result]

Advance(e) == IF ends[e].step = Len(HandshakeOrder) THEN Returned(e, <<"Ok", 232>>) ELSE [ends[e] EXCEPT !.step = @ + 1]

\* The connection was dropped by the end e, whose call returned an error.
Dropped(e) == At(e) = "returned" /\ ends[e].result[1] # "Ok"

\* An end blocks in a read while nothing was sent to it and its peer holds the
\* connection open.
Blocked(e) == At(e) \in {"l154", "l199"} /\ wire[e] = <<>> /\ ~Dropped(Peer(e))

\* The peers map of an end: it holds the peer's listening address when the end
\* knows the peer from another connection.
PeersOf(e, l) == IF ends[e].known THEN MapInsert(EmptyMap, l, NewClientPeer(NoAddr, MESSAGE_VERSION)) ELSE EmptyMap

\* What a read by e returns: the first message sent to it, or the end of the
\* stream.
Received(e, eof) == IF wire[e] = <<>> THEN eof ELSE Head(wire[e])

\* The header of a received challenge response, as the reader sees it.
SeenBy(e, m) == IF m.kind = "ChallengeResponse" THEN [m EXCEPT !.header = IF m.header = ends[e].network THEN "genesis" ELSE "other"] ELSE m

\* The two nodes start their handshakes: each is of some network, may have the
\* peer's connected address in its address_map (connected) and may have the
\* peer's listening address in its peers (known).
InitPipeline ==
    /\ InitNode
    /\ ends \in [Ends -> {[step |-> 1, result |-> <<"none", 0>>, network |-> n, connected |-> c, known |-> k] : n \in Networks, c \in BOOLEAN, k \in BOOLEAN}]
    /\ wire = [e \in Ends |-> <<>>]

\* lib.rs:125-148 and 189-196: an end writes its challenge request, after the
\* immediate duplicate check, or its challenge response; when the peer has
\* dropped the connection, write_all fails or the bytes are lost.
Write(e) ==
    /\ At(e) \in {"l148", "l196"}
    /\ IF At(e) = "l148" /\ ends[e].connected
       THEN /\ ends' = [ends EXCEPT ![e] = Returned(e, <<"AlreadyExists", 127>>)]
            /\ UNCHANGED wire
       ELSE IF Dropped(Peer(e))
       THEN /\ \E fails \in BOOLEAN :
                ends' = [ends EXCEPT ![e] = IF fails THEN Returned(e, <<"BrokenPipe", IF At(e) = "l148" THEN 148 ELSE 196>>) ELSE Advance(e)]
            /\ UNCHANGED wire
       ELSE /\ wire' = [wire EXCEPT ![Peer(e)] = Append(@, IF At(e) = "l148"
                                                             THEN ChallengeRequest(MESSAGE_VERSION, EndPort(e))
                                                             ELSE [kind |-> "ChallengeResponse", header |-> ends[e].network])]
            /\ ends' = [ends EXCEPT ![e] = Advance(e)]
    /\ UNCHANGED <<registry_vars, crawler_vars, codec_vars, dispatch_vars, dial_vars>>

\* lib.rs:153-187: an end reads the peer's challenge request and checks it.
ReadRequest(e) ==
    /\ At(e) = "l154"
    /\ ~Blocked(e)
    /\ LET m == Received(e, FirstMessage("Eof"))
           l == PeerListeningAddr(EndAddr(Peer(e)), m.port)
           out == RequestOutcome(m, PeersOf(e, l), l)
       IN  ends' = [ends EXCEPT ![e] = IF out[1] = "go on" THEN Advance(e) ELSE Returned(e, out)]
    /\ wire' = [wire EXCEPT ![e] = IF @ = <<>> THEN @ ELSE Tail(@)]
    /\ UNCHANGED <<registry_vars, crawler_vars, codec_vars, dispatch_vars, dial_vars>>

\* lib.rs:198-243: an end reads the peer's challenge response, checks it and
\* registers the peer.
ReadResponse(e) ==
    /\ At(e) = "l199"
    /\ ~Blocked(e)
    /\ LET m == Received(e, SecondMessage("Eof"))
           out == ResponseOutcome(SeenBy(e, m))
       IN  ends' = [ends EXCEPT ![e] = IF out[1] = "go on" THEN Advance(e) ELSE Returned(e, out)]
    /\ wire' = [wire EXCEPT ![e] = IF @ = <<>> THEN @ ELSE Tail(@)]
    /\ UNCHANGED <<registry_vars, crawler_vars, codec_vars, dispatch_vars, dial_vars>>

EndStep(e) == Write(e) \/ ReadRequest(e) \/ ReadResponse(e)

NextPipeline ==
    \/ \E e \in Ends : Write(e)
    \/ \E e \in Ends : ReadRequest(e)
    \/ \E e \in Ends : ReadResponse(e)

\* The scheduler polls a task that is ready, and a reliable connection delivers
\* what was written to it: a step of an end that stays possible is taken.
SpecPipeline == InitPipeline /\ [][NextPipeline]_vars /\ \A e \in Ends : WF_vars(EndStep(e))

\* C20: two nodes that run perform_handshake with each other never both wait
\* for the other to write, and both calls eventually return.
C20_PipelinedHandshakeTerminates ==
    /\ [](\E e \in Ends : ~Blocked(e))
    /\ <>(\A e \in Ends : At(e) = "returned")

\* C20 witness: both calls have returned Ok, each end having read the other's
\* request and response.
C20_Witness ==
    \A e \in Ends : At(e) = "returned" /\ ends[e].result = <<"Ok", 232>> /\ wire[e] = <<>>

-----------------------------------------------------------------------------
(* The dial tasks (crawler.rs:161-171 in update_peers, crawler.rs:369-379 in
   process_peer_response), one by one: each is spawned for an address that
   is_connected denies, awaits connect() and then calls connected_to_node and,
   after an Ok, send_direct_message with a PeerRequest.  connected_to_node is
   in known_network.rs, which is not in src/: by section 4.D of the
   specification it records the outcome of an attempt. *)

DialOrigins == {"update_peers", "process_peer_response"}

\* KnownNetwork::connected_to_node(addr, connection_init_timestamp, success).
ConnectedToNode(addr, success) == <<"connected_to_node", addr, success>>

\* send_direct_message(addr, ClientMessage::PeerRequest), its result dropped.
SendPeerRequest(addr) == <<"send_direct_message", addr, "PeerRequest">>

\* A dial task that asks for peers after a failed connect as well.
DialCallsAlwaysRequest(origin, addr, ok) == <<ConnectedToNode(addr, ok), SendPeerRequest(addr)>>

\* The calls of a dial task once connect() has returned, in their order: the
\* task of update_peers sends first (crawler.rs:165-166), the task of
\* process_peer_response records first (crawler.rs:372-375).
DialCalls(origin, addr, ok) ==
    IF ok
    THEN IF origin = "update_peers"
         THEN <<SendPeerRequest(addr), ConnectedToNode(addr, TRUE)>>
         ELSE <<ConnectedToNode(addr, TRUE), SendPeerRequest(addr)>>
    ELSE <<ConnectedToNode(addr, FALSE)>>

\* The task has returned.
DialDone(t, result) == [dials[t] EXCEPT !.pc = "done", !.result = result, !.calls = DialCalls(dials[t].origin, dials[t].addr, result = "Ok")]

\* task::spawn at crawler.rs:161 and crawler.rs:369: the address is not
\* connected, and process_peer_response has dropped the node's own address.
SpawnDial(t, origin, addr) ==
    /\ dials[t].pc = "idle"
    /\ \A u \in DialTasks : u < t => dials[u].pc # "idle"
    /\ ~IsConnectedTo(addr)
    /\ origin = "process_peer_response" => addr # OwnAddr
    /\ dials' = [dials EXCEPT ![t] = [DialIdle EXCEPT !.pc = "spawned", !.origin = origin, !.addr = addr]]
    /\ obs' = NoObs
    /\ UNCHANGED <<pipeline_vars, dispatch_vars, codec_vars, crawler_vars, address_map, peers, connections, debug_assertions, sync_vars>>

\* The task is polled and calls connect(), which fails at once on the node's
\* own listening address and on an address the transport is connecting or
\* connected to.
DialConnect(t) ==
    LET addr == dials[t].addr IN
    /\ dials[t].pc = "spawned"
    /\ IF addr = OwnAddr \/ addr \in Connecting \cup connections
       THEN /\ dials' = [dials EXCEPT ![t] = DialDone(t, "Err")]
            /\ UNCHANGED connecting
       ELSE /\ dials' = [dials EXCEPT ![t].pc = "connecting"]
            /\ connecting' = connecting \cup {addr}
    /\ obs' = NoObs
    /\ UNCHANGED <<pipeline_vars, dispatch_vars, codec_vars, address_map, peers, connections, debug_assertions, sync_vars, nodes, edges, spawned, pending_dc, loop, round, handled>>

\* connect() returns: Ok once the handshake has registered the peer, which
\* advertises the port it was dialed at, Err when the attempt was refused,
\* timed out or the handshake failed.
DialReturn(t, result) ==
    LET addr == dials[t].addr
        l == PeerListeningAddr(addr, addr[2])
    IN
    /\ dials[t].pc = "connecting"
    /\ IF result = "Ok"
       THEN /\ ~RegisterRace(address_map, peers, addr, l)
            /\ address_map' = MapInsert(address_map, addr, l)
            /\ peers' = MapInsert(peers, l, NewClientPeer(addr, MESSAGE_VERSION))
            /\ connections' = connections \cup {addr}
       ELSE UNCHANGED <<address_map, peers, connections>>
    /\ connecting' = connecting \ {addr}
    /\ dials' = [dials EXCEPT ![t] = DialDone(t, result)]
    /\ obs' = NoObs
    /\ UNCHANGED <<pipeline_vars, dispatch_vars, codec_vars, debug_assertions, sync_vars, nodes, edges, spawned, pending_dc, loop, round, handled>>

\* A dial task takes its next step.
DialStep(t) ==
    \/ DialConnect(t)
    \/ \E result \in SendResults : DialReturn(t, result)

InitDial ==
    /\ InitRegistry

NextDial ==
    \/ \E t \in DialTasks, origin \in DialOrigins, addr \in GossipAddrs : SpawnDial(t, origin, addr)
    \/ \E t \in DialTasks : DialConnect(t)
    \/ \E t \in DialTasks, result \in SendResults : DialReturn(t, result)
    \/ \E c \in InboundAddrs, port \in ListeningPorts : InboundConnect(c, port)
    \/ \E c \in InboundAddrs \cup GossipAddrs : Disconnect(c)

\* The runtime polls every spawned task, and connect() returns: the transport
\* bounds the time of an attempt.
SpecDial == InitDial /\ [][NextDial]_vars /\ \A t \in DialTasks : WF_vars(DialStep(t))

\* The positions in calls of the calls of one kind.
CallsOf(calls, kind) == {i \in DOMAIN calls : calls[i][1] = kind}

\* C21: every spawned dial task returns, having recorded one outcome for its
\* address, a success exactly when connect() returned Ok, and having sent one
\* PeerRequest to that address after an Ok and none otherwise.
C21_DialOutcome ==
    /\ [](\A t \in DialTasks :
            LET d == dials[t] IN
            IF d.pc = "done"
            THEN /\ Cardinality(CallsOf(d.calls, "connected_to_node")) = 1
                 /\ \A i \in CallsOf(d.calls, "connected_to_node") : d.calls[i] = ConnectedToNode(d.addr, d.result = "Ok")
                 /\ Cardinality(CallsOf(d.calls, "send_direct_message")) = (IF d.result = "Ok" THEN 1 ELSE 0)
                 /\ \A i \in CallsOf(d.calls, "send_direct_message") : d.calls[i] = SendPeerRequest(d.addr)
            ELSE d.calls = <<>>)
    /\ \A t \in DialTasks : (dials[t].pc = "spawned") ~> (dials[t].pc = "done")

\* One task of each origin has returned, one after an Ok and one after an Err.
C21_Witness ==
    \E t, u \in DialTasks :
        /\ dials[t].pc = "done" /\ dials[t].result = "Ok" /\ dials[t].origin = "update_peers"
        /\ dials[u].pc = "done" /\ dials[u].result = "Err" /\ dials[u].origin = "process_peer_response"

\* C22: process_ping, called for a Ping whose header decoded, updates the node
\* of the source's listening address when the registry has the source, and
\* sends a Pong to the source, registered or not.
C22_PingIsAnswered ==
    obs.op = "process_ping" =>
        /\ obs.ret.answer = "Pong"
        /\ ContainsKey(address_map, obs.ret.source) => ContainsKey(nodes, address_map[obs.ret.source]) /\ nodes[address_map[obs.ret.source]] = "Some"

-----------------------------------------------------------------------------
(* read_message on frames that arrive in pieces, checked under SpecStream. *)

\* The bytes the stream held from where the last read_message started.
Available == Len(stream) - obs.ret.start

\* The length the four bytes at the start of the last read announce.
AnnouncedLen == U32FromLeBytes(SubSeq(stream, obs.ret.start + 1, obs.ret.start + MESSAGE_LENGTH_PREFIX_SIZE))

\* The prefix, the ID and the L - 2 bytes after it were all there.
FrameComplete ==
    /\ Available >= MESSAGE_LENGTH_PREFIX_SIZE + 2
    /\ AnnouncedLen >= 2
    /\ Available >= MESSAGE_LENGTH_PREFIX_SIZE + AnnouncedLen

\* One of the three reads had fewer bytes than it asked for.
FrameLacking ==
    \/ Available < MESSAGE_LENGTH_PREFIX_SIZE + 2
    \/ AnnouncedLen >= 2 /\ Available < MESSAGE_LENGTH_PREFIX_SIZE + AnnouncedLen

\* C24: read_message returns a message, Handled or Unhandled, only when the
\* whole frame was available, and returns None, no error and no message,
\* whenever the prefix, the ID or the body was not all there, a prefix of two
\* or three bytes included.
C24_IncompleteFrames ==
    obs.op = "read_message" =>
        /\ obs.ret.kind \in {"Handled", "Unhandled"} => FrameComplete
        /\ FrameLacking => obs.ret.kind = "None"

\* After a frame was read, two or three bytes of the next prefix were there
\* and read_message returned None.
C24_Witness ==
    /\ obs.op = "read_message"
    /\ obs.ret.start > 0
    /\ Available \in {2, 3}
    /\ obs.ret.kind = "None"

\* C25: process_message handles every message read_message returns as Handled,
\* that is every message of an accepted ID, without reaching unreachable!().
C25_DispatchIsTotal ==
    obs.op = "process_message" => obs.ret.answer # "unreachable"

\* C26: the assertion of get_peer_listening_addr holds at the call process_ping
\* makes for a source the registry holds, an inbound peer included: the handler
\* does not end in the assertion's panic.
C26_LookupAssertionsHold ==
    obs.op = "process_ping" /\ ContainsKey(address_map, obs.ret.source) => obs.ret.answer # "panic"

\* C27: whatever length L the prefix of a frame announces, 0 and 1 included,
\* read_message computes L - 2 without underflow, so that it does not panic,
\* and consumes no more than the four bytes of the prefix and the L bytes of
\* the frame.
C27_NoLengthUnderflow ==
    \A k \in FramesRead :
        /\ obs.ret.kind # "Panic"
        /\ obs.ret.consumed <= MESSAGE_LENGTH_PREFIX_SIZE + frames[k].len

\* C28: whatever the peer sends, a length prefix beyond the handshake buffer
\* and a challenge response whose header does not decode included,
\* perform_handshake returns Ok or an error, never panics, and a call that has
\* returned holds neither registry lock.
C28_HandshakeFailuresAreErrors ==
    /\ obs.op = "perform_handshake" => obs.ret[1] # "panic"
    /\ \A t \in HsTasks : hs[t].pc \in {"idle", "done"} =>
            /\ peers_lock.writer # t /\ t \notin peers_lock.readers
            /\ address_map_lock.writer # t /\ t \notin address_map_lock.readers

====
